---- MODULE Spec2Model ----
(***************************************************************************)
(* Availability and booking reconciliation of rsrvflow: BookingAgent       *)
(* (processBooking, checkAvailability, rescheduleBooking, cancelBooking),  *)
(* CancellationAgent.processCancellation, the reminder sweep of            *)
(* SchedulerService, the bookings table behind DatabaseService and the     *)
(* external calendar behind GoogleCalendarService.                         *)
(*                                                                         *)
(* Times are minutes since local midnight of day 0.  A Date is a record    *)
(* [valid, t]: JavaScript's Invalid Date (time value NaN) is valid=FALSE,  *)
(* and every comparison with it is false, as in the language.              *)
(***************************************************************************)
EXTENDS Integers, Sequences, FiniteSets, TLC

(* ------------------------------ bounds -------------------------------- *)

\* Rows the bookings table may hold.
MaxBookings == 2

\* Requested start times are 08:45 + 15*k minutes, k in 0..NumStarts, on day 0,
\* and the two late starts 23:45 (day 0) and 00:00 (day 1).
NumStarts == 3

(* --------------------------- program constants ------------------------ *)

\* `buffer_minutes || 15`
DefaultBuffer == 15

MinutesPerDay == 24 * 60

Businesses == {"b1", "b2"}

\* The services table: name -> duration_minutes (active services only).
ServiceDuration == [s \in {"trim", "cut"} |-> IF s = "trim" THEN 15 ELSE 30]

ServiceNames == DOMAIN ServiceDuration

\* The clock the handlers read (new Date()): 09:05 of day 0, so that requests
\* for 08:45 and 09:00 of day 0 lie in the past.
Now == 9 * 60 + 5

(* ------------------------- numbers and dates -------------------------- *)

\* Number(text): a number, or NaN for text that is not numeric.
Num(v) == [nan |-> FALSE, v |-> v]

NaN == [nan |-> TRUE, v |-> 0]

\* new Date(...) with a time value, and the Invalid Date.
DateAt(t) == [valid |-> TRUE, t |-> t]

InvalidDate == [valid |-> FALSE, t |-> 0]

\* a < b on Dates: false when either is invalid.
DateLt(a, b) == a.valid /\ b.valid /\ a.t < b.t

\* a > b on Dates.
DateGt(a, b) == DateLt(b, a)

DayOf(t) == t \div MinutesPerDay

StartOfDay(t) == DayOf(t) * MinutesPerDay

\* endOfDay.setHours(23, 59, 59, 999): the last minute of the day, inclusive.
EndOfDay(t) == StartOfDay(t) + MinutesPerDay - 1

\* format(startTime, 'EEE').toLowerCase(): day 0 is a Monday.
WeekdayKeys == <<"mon", "tue", "wed", "thu", "fri", "sat", "sun">>

DayOfWeek(t) == WeekdayKeys[(DayOf(t) % 7) + 1]

\* date.setHours(h, m, 0, 0) on a copy of the date at minute t.
SetHours(t, h, m) ==
  IF h.nan \/ m.nan THEN InvalidDate ELSE DateAt(StartOfDay(t) + h.v * 60 + m.v)

(* --------------------------- hours strings ---------------------------- *)

\* A stored hours value: absent (kind "none"), the word 'closed', or any other
\* text.  Text is held already cut at '-' and then at ':' (parts, a sequence of
\* sequences), each piece being what Number() makes of it.
NoHours == [kind |-> "none", parts |-> <<>>]

ClosedHours == [kind |-> "closed", parts |-> <<>>]

HoursText(parts) == [kind |-> "text", parts |-> parts]

\* "HH:MM-HH:MM"
Range(oh, om, ch, cm) == HoursText(<< <<Num(oh), Num(om)>>, <<Num(ch), Num(cm)>> >>)

\* const [a, b] = arr: a missing element is undefined, and Number-converted NaN.
Elem(seq, i) == IF i <= Len(seq) THEN seq[i] ELSE NaN

\* businessHours.split('-') then closeTime.split(':'): a TypeError when the text
\* has no '-' (closeTime is undefined).
HoursThrows(h) == Len(h.parts) < 2

OpenDateTime(h, t) == SetHours(t, Elem(h.parts[1], 1), Elem(h.parts[1], 2))

CloseDateTime(h, t) == SetHours(t, Elem(h.parts[2], 1), Elem(h.parts[2], 2))

(* ------------------------------- state -------------------------------- *)

VARIABLES
  business,   \* businesses table: id -> [hours, buffer, calendar]
  bookings,   \* bookings table: a row's id is its index
  last,       \* the result the last finished call returned
  reqs,       \* processBooking calls in flight (interleaved requests)
  hook,       \* the webhook handler's call: where it is and what it sent
  rateLimit,  \* app.locals.rateLimit: sender key -> [count, resetTime]
  passed,     \* per sender key, the times of the requests handed to next()
  clock       \* Date.now(), in milliseconds

\* The state of the HTTP front: the webhook handler and the rate limiter.
front == <<hook, rateLimit, passed, clock>>

vars == <<business, bookings, last, reqs, front>>

\* config.settings.buffer_minutes: absent, or a number.
NoBuffer == [set |-> FALSE, v |-> 0]

Buffer(v) == [set |-> TRUE, v |-> v]

Interval(s, e) == [start |-> s, end |-> e]

Ids == 1..Len(bookings)

(* ------------------------ DatabaseService reads ----------------------- *)

\* The query without its filter on status.
GetBookingsByBusinessAnyStatus(rows, b, startDate, endDate, dbOut) ==
  IF dbOut # "ok" THEN {}
  ELSE {i \in 1..Len(rows) :
          /\ rows[i].business = b
          /\ rows[i].start >= startDate
          /\ rows[i].start <= endDate}

\* getBookingsByBusiness(businessId, startDate, endDate): the ids of the
\* business's confirmed rows with startDate <= start_time <= endDate; on a
\* query error the method logs and returns [].
GetBookingsByBusiness(rows, b, startDate, endDate, dbOut) ==
  IF dbOut # "ok" THEN {}
  ELSE {i \in 1..Len(rows) :
          /\ rows[i].business = b
          /\ rows[i].status = "confirmed"
          /\ rows[i].start >= startDate
          /\ rows[i].start <= endDate}

(* ------------------------ GoogleCalendarService ----------------------- *)

\* The external calendar is not this program's state: its owner and other
\* programs write to it.  A call is given what the calendar answers: cal.out is
\* "ok", "init_fail" (initializeForBusiness returned false) or "query_fail"
\* (freebusy.query threw), and cal.busySlots the busy windows of an "ok" answer.
\* "na" marks a call that never asked.
CalAnswer(out, busySlots) == [out |-> out, busySlots |-> busySlots]

NotAsked == CalAnswer("na", {})

\* A freebusy answer that also reports windows touching the queried range.
FreeBusyInclusive(windows, timeMin, timeMax) ==
  {w \in windows : w.start <= timeMax /\ w.end >= timeMin}

\* freebusy for [timeMin, timeMax] on a calendar holding `windows`: those that
\* intersect it.
FreeBusy(windows, timeMin, timeMax) ==
  {w \in windows : w.start < timeMax /\ w.end > timeMin}

\* GoogleCalendarService.checkAvailability: a failure is answered
\* {available: false, error}, an answer by whether busySlots is empty.
CalendarCheckAvailability(cal) ==
  IF cal.out = "init_fail" THEN [available |-> FALSE, error |-> TRUE]
  ELSE IF cal.out = "query_fail" THEN [available |-> FALSE, error |-> TRUE]
  ELSE [available |-> cal.busySlots = {}, error |-> FALSE]

\* How a call's calendar query ended, for the record of the call.
CalTag(cal) ==
  IF cal.out = "ok" THEN (IF cal.busySlots = {} THEN "free" ELSE "busy") ELSE cal.out

(* ------------------- BookingAgent.checkAvailability ------------------- *)

Unavailable(reason, suggestions) ==
  [threw |-> FALSE, available |-> FALSE, reason |-> reason, suggestions |-> suggestions]

Available == [threw |-> FALSE, available |-> TRUE, reason |-> "", suggestions |-> FALSE]

Threw == [threw |-> TRUE, available |-> FALSE, reason |-> "", suggestions |-> FALSE]

\* The conflict test with strict comparisons only: it misses a candidate that
\* starts and ends with the existing booking.
SlotConflictStrict(s, e, es, ee) ==
  \/ (s > es /\ s < ee)
  \/ (e > es /\ e < ee)

\* The three-way test of the database conflict loop.
SlotConflict(s, e, es, ee) ==
  \/ (s >= es /\ s < ee)
  \/ (e > es /\ e <= ee)
  \/ (s <= es /\ e >= ee)

\* The two-way test of the buffer loop, on the candidate widened by the buffer.
BufferConflict(bufferStart, bufferEnd, es, ee) ==
  \/ (bufferStart < ee /\ bufferStart > es)
  \/ (bufferEnd > es /\ bufferEnd < ee)

\* this.business.config?.settings?.buffer_minutes || 15
BufferMinutes(b) ==
  IF business[b].buffer.set /\ business[b].buffer.v # 0
  THEN business[b].buffer.v ELSE DefaultBuffer

\* The hours stage comparing only the candidate's start with the window.
HoursCheckStartOnly(h, s, e) ==
  IF h.kind = "none" \/ h.kind = "closed" THEN "closed"
  ELSE IF HoursThrows(h) THEN "throw"
  ELSE IF \/ DateLt(DateAt(s), OpenDateTime(h, s))
          \/ DateGt(DateAt(s), CloseDateTime(h, s))
       THEN "outside_hours"
       ELSE ""

\* The hours stage of checkAvailability: "" when the candidate passes it, "throw"
\* when parsing the stored text throws, else the reason it is refused with.
HoursCheck(h, s, e) ==
  IF h.kind = "none" \/ h.kind = "closed" THEN "closed"
  ELSE IF HoursThrows(h) THEN "throw"
  ELSE IF \/ DateLt(DateAt(s), OpenDateTime(h, s))
          \/ DateGt(DateAt(e), CloseDateTime(h, s))
       THEN "outside_hours"
       ELSE ""

\* checkAvailability consulting the calendar answer whether or not the business
\* has a calendar bound.
CheckAvailabilityUnbound(b, s, e, cal, dbOut) ==
  LET hours == HoursCheck(business[b].hours[DayOfWeek(s)], s, e)
      existing == GetBookingsByBusiness(bookings, b, StartOfDay(s), EndOfDay(s), dbOut)
      bufferMinutes == BufferMinutes(b)
  IN  IF hours = "throw" THEN Threw
      ELSE IF hours # "" THEN Unavailable(hours, FALSE)
      ELSE IF ~CalendarCheckAvailability(cal).available
           THEN Unavailable("already_booked", TRUE)
      ELSE IF \E i \in existing : SlotConflict(s, e, bookings[i].start, bookings[i].end)
           THEN Unavailable("already_booked", FALSE)
      ELSE IF /\ bufferMinutes > 0
              /\ \E i \in existing :
                   BufferConflict(s - bufferMinutes, e + bufferMinutes,
                                  bookings[i].start, bookings[i].end)
           THEN Unavailable("buffer", FALSE)
      ELSE Available

\* checkAvailability(startTime, endTime) of the agent of business b, with the
\* calendar answering cal and the bookings query ending as dbOut.
CheckAvailability(b, s, e, cal, dbOut) ==
  LET hours == HoursCheck(business[b].hours[DayOfWeek(s)], s, e)
      existing == GetBookingsByBusiness(bookings, b, StartOfDay(s), EndOfDay(s), dbOut)
      bufferMinutes == BufferMinutes(b)
  IN  IF hours = "throw" THEN Threw
      ELSE IF hours # "" THEN Unavailable(hours, FALSE)
      ELSE IF /\ business[b].calendar
              /\ ~CalendarCheckAvailability(cal).available
           THEN Unavailable("already_booked", TRUE)
      ELSE IF \E i \in existing : SlotConflict(s, e, bookings[i].start, bookings[i].end)
           THEN Unavailable("already_booked", FALSE)
      ELSE IF /\ bufferMinutes > 0
              /\ \E i \in existing :
                   BufferConflict(s - bufferMinutes, e + bufferMinutes,
                                  bookings[i].start, bookings[i].end)
           THEN Unavailable("buffer", FALSE)
      ELSE Available

\* The keys of the object checkAvailability returns.
AvailabilityFields(r) ==
  IF r.available THEN {"available", "startTime", "endTime", "duration"}
  ELSE {"available", "reason"} \cup (IF r.suggestions THEN {"suggestions"} ELSE {})

(* --------------- GoogleCalendarService.getAvailableSlots -------------- *)

\* const slotInterval = 15
SlotInterval == 15

\* getDayEvents: the calendar's events of the day of `date`; [] when the
\* calendar cannot be initialised or events.list throws (out # "ok").
GetDayEvents(windows, date, out) ==
  IF out # "ok" THEN {}
  ELSE {w \in windows : w.end > StartOfDay(date) /\ w.start < EndOfDay(date) + 1}

\* The three-way test of a slot against one calendar event.
EventConflict(currentTime, slotEnd, eventStart, eventEnd) ==
  \/ (currentTime >= eventStart /\ currentTime < eventEnd)
  \/ (slotEnd > eventStart /\ slotEnd <= eventEnd)
  \/ (currentTime <= eventStart /\ slotEnd >= eventEnd)

\* A slot kept whatever its end.
SlotKeptPastClose(currentTime, slotEnd, closeT, events) ==
  ~\E ev \in events : EventConflict(currentTime, slotEnd, ev.start, ev.end)

\* Whether the loop pushes the slot [currentTime, slotEnd).
SlotKept(currentTime, slotEnd, closeT, events) ==
  /\ slotEnd <= closeT
  /\ ~\E ev \in events : EventConflict(currentTime, slotEnd, ev.start, ev.end)

\* A step of 10 minutes.
NextSlotTimeTen(currentTime) == currentTime + 10

\* currentTime = currentTime + slotInterval minutes
NextSlotTime(currentTime) == currentTime + SlotInterval

\* The while loop from currentTime on: the slots pushed, in the order pushed.
RECURSIVE GenerateSlots(_, _, _, _)
GenerateSlots(currentTime, closeT, serviceDuration, events) ==
  IF ~(currentTime < closeT) THEN <<>>
  ELSE (IF SlotKept(currentTime, currentTime + serviceDuration, closeT, events)
        THEN <<Interval(currentTime, currentTime + serviceDuration)>>
        ELSE <<>>)
       \o GenerateSlots(NextSlotTime(currentTime), closeT, serviceDuration, events)

\* getAvailableSlots(businessId, date, serviceDuration) for stored hours h and
\* the day's events: [threw, slots].  An Invalid Date as open or close makes
\* `currentTime < closeDateTime` false at once.
GetAvailableSlots(h, date, serviceDuration, events) ==
  IF h.kind = "none" \/ h.kind = "closed" THEN [threw |-> FALSE, slots |-> <<>>]
  ELSE IF HoursThrows(h) THEN [threw |-> TRUE, slots |-> <<>>]
  ELSE IF ~OpenDateTime(h, date).valid \/ ~CloseDateTime(h, date).valid
       THEN [threw |-> FALSE, slots |-> <<>>]
       ELSE [threw |-> FALSE,
             slots |-> GenerateSlots(OpenDateTime(h, date).t, CloseDateTime(h, date).t,
                                     serviceDuration, events)]

\* The suggestions without the cut to three.
SuggestionsUncut(slots) == slots

\* slots.slots?.slice(0, 3)
Suggestions(slots) == SubSeq(slots, 1, IF Len(slots) < 3 THEN Len(slots) ELSE 3)

(* ------------------------------ requests ------------------------------ *)

\* The instants customers ask for: 08:45 + 15*k on day 0, and 23:45 and 00:00
\* around the first midnight; of business b2 only 09:00.
ReqTimes(b) ==
  IF b = "b1"
  THEN {8 * 60 + 45 + 15 * k : k \in 0..NumStarts} \cup {23 * 60 + 45, MinutesPerDay}
  ELSE {9 * 60}

\* bookingData.date / bookingData.time as the intent extractor hands them over:
\* missing; text neither new Date() nor parseDateTime reads ("garbled"); an ISO
\* date with HH:MM ("iso"); or wording such as 'tomorrow' / '3pm' that only
\* parseDateTime reads ("relative").  t is the instant the text denotes.
Whens(b) ==
  {[kind |-> "missing", t |-> 0], [kind |-> "garbled", t |-> 0]}
  \cup [kind : {"iso"}, t : ReqTimes(b)]
  \cup [kind : {"relative"}, t : {t \in ReqTimes(b) : t <= 9 * 60}]

\* bookingData.service: a service name, none given, or a name no service matches.
ServiceInputs == ServiceNames \cup {"", "nosuch"}

\* validateBookingData: "" when valid, else why not.  new Date(`${date}T${time}`)
\* is an Invalid Date unless both are ISO text, and then `bookingDate < now` is false.
ValidateBookingData(service, when) ==
  IF service = "" \/ when.kind = "missing" THEN "missing_fields"
  ELSE IF DateLt(IF when.kind = "iso" THEN DateAt(when.t) ELSE InvalidDate, DateAt(Now))
       THEN "past"
       ELSE ""

\* parseDateTime: whether both date and time came out non-null.
ParseDateTime(when) == when.kind \in {"iso", "relative"}

\* getServiceDuration: service?.duration_minutes || null (0 stands for null).
GetServiceDuration(service) ==
  IF service \in ServiceNames THEN ServiceDuration[service] ELSE 0

\* bookingData.party_size: null, or the number the intent extractor read.
NoParty == [given |-> FALSE, v |-> 0]

Party(v) == [given |-> TRUE, v |-> v]

PartySizes == {NoParty, Party(2), Party(0 - 1)}

(* ------------------------------- results ------------------------------ *)

\* What a finished call returned, with how its collaborators answered during it.
\*   op       the method
\*   success  result.success
\*   msg      which message the result carries
\*   cal, db, ins   how the calendar query, the bookings query and the write
\*            (insert or update) ended ("na" when the call did not reach them)
\*   clear    the request was inside business hours and at least the buffer
\*            away from every confirmed booking of the business when it arrived
\*   party    the party_size processBooking handed to createDatabaseBooking
\*            (NoParty when none was given or the call did not get there)
\*   evt      how the update or cancellation of the booking's calendar event
\*            ended ("na" when the call did not attempt one)
\*   selected, sent   of a reminder sweep: the bookings its query returned, and
\*            those among them whose reminder message was sent
\*   attempts of a reminder sweep: for each booking its query returned, how
\*            many times the loop ran its body (the send) for it
Result(op, success, msg, cal, db, ins, clear) ==
  [op |-> op, success |-> success, msg |-> msg,
   cal |-> cal, db |-> db, ins |-> ins, clear |-> clear,
   party |-> NoParty, evt |-> "na", selected |-> {}, sent |-> {},
   attempts |-> <<>>]

NoResult == Result("none", FALSE, "", "na", "na", "na", FALSE)

Failed(op, msg, cal, db, ins, clear) == Result(op, FALSE, msg, cal, db, ins, clear)

\* The keys of the object a call returns.
ResultFields(r) ==
  IF ~r.success THEN {"success", "message"}
  ELSE IF r.op = "processBooking"
       THEN {"success", "message", "bookingId", "booking", "calendarEventId", "calendarLink"}
       ELSE {"success", "message", "booking"}

\* The configured buffer_minutes, 15 when the setting is absent.
ConfiguredBuffer(b) ==
  IF business[b].buffer.set THEN business[b].buffer.v ELSE DefaultBuffer

\* Inside the day's window, and no confirmed booking of the business within the
\* buffer (the configured one, and the one checkAvailability uses) of [s, e).
Clear(b, s, e) ==
  LET h == business[b].hours[DayOfWeek(s)]
      m == IF ConfiguredBuffer(b) > BufferMinutes(b)
           THEN ConfiguredBuffer(b) ELSE BufferMinutes(b)
  IN  /\ h.kind = "text" /\ ~HoursThrows(h)
      /\ OpenDateTime(h, s).valid /\ CloseDateTime(h, s).valid
      /\ OpenDateTime(h, s).t <= s /\ e <= CloseDateTime(h, s).t
      /\ \A i \in Ids :
           (bookings[i].business = b /\ bookings[i].status = "confirmed")
             => (s >= bookings[i].end + m \/ e <= bookings[i].start - m)

(* --------------------------- initial states --------------------------- *)

\* config.hours: weekday key -> stored value.  Only Monday (day 0) and Tuesday
\* (day 1) are asked about; the other days have no entry.
Hours(mon, tue) ==
  [d \in {"mon", "tue", "wed", "thu", "fri", "sat", "sun"} |->
     IF d = "mon" THEN mon ELSE IF d = "tue" THEN tue ELSE NoHours]

\* Text with a '-' whose pieces are not all numbers: '23:00-5am' and '9am-5pm'.
LateHours == HoursText(<< <<Num(23), Num(0)>>, <<NaN>> >>)

NonNumericHours == HoursText(<< <<NaN>>, <<NaN>> >>)

DefaultHours == Hours(Range(9, 0, 9, 45), NoHours)

\* The hours an admin may have stored (updateBusinessHours stores any object).
HoursOptions ==
  { DefaultHours,                                         \* '09:00-09:45'
    Hours(ClosedHours, NoHours),                          \* 'closed'
    Hours(LateHours, NonNumericHours),                    \* '23:00-5am', '9am-5pm'
    Hours(HoursText(<< <<Num(9), Num(0)>> >>), NoHours),  \* '09:00'
    Hours(Range(10, 0, 9, 0), NoHours) }                  \* '10:00-09:00'

Config(h, buf, c) == [hours |-> h, buffer |-> buf, calendar |-> c]

\* The configurations of business b1, which has no calendar: every stored hours
\* value with the buffer setting absent, and the well-formed hours with each
\* buffer setting.
Configs ==
  {Config(h, NoBuffer, FALSE) : h \in HoursOptions}
  \cup {Config(DefaultHours, buf, FALSE) : buf \in {Buffer(0), Buffer(10)}}

\* Business b2: hours '09:00-10:00', the default buffer, and a calendar bound.
CalendarBusiness == Config(Hours(Range(9, 0, 10, 0), NoHours), NoBuffer, TRUE)

\* What the calendar may hold when it is asked.
CalendarOptions == {{}, {Interval(9 * 60 + 15, 9 * 60 + 30)}}

\* An interleaved processBooking call: where it is (pc: "idle", "checked" after
\* checkAvailability said available, "done"), what it asked for, how many rows
\* the table held when it read it (seen), the row it inserted (row, 0 for none)
\* and its result.
\* A sweep in flight uses todo: the rows its query returned that the loop has
\* not reached yet.
Request(pc, b, s, e, seen, row, result) ==
  [pc |-> pc, b |-> b, start |-> s, end |-> e, seen |-> seen, row |-> row,
   result |-> result, todo |-> {}]

Idle == Request("idle", "b1", 0, 0, 0, 0, NoResult)

Done(result) == Request("done", "b1", 0, 0, 0, 0, result)

Procs == {1, 2}

(* --------------------------- the HTTP front --------------------------- *)

\* The sender keys of rateLimitMiddleware: req.body.From without its
\* 'whatsapp:' prefix, or req.ip when the request has no From.
Phone == "+254700000001"

Ip == "10.0.0.7"

Senders == {Phone, Ip}

\* Where a webhook request is (pc) and what it carries: the sender, the intent
\* and action the language model extracted, and the number of confirmation
\* messages sent to the customer while it was handled.
Hook(pc, from, intent, action, confirmations) ==
  [pc |-> pc, from |-> from, intent |-> intent, action |-> action,
   confirmations |-> confirmations]

NoHook == Hook("idle", "", "", "", 0)

\* app.locals.rateLimit before the first request: no Map yet, made empty on
\* the first call.
InitFront ==
  /\ hook = NoHook
  /\ rateLimit = [k \in {} |-> [count |-> 0, resetTime |-> 0]]
  /\ passed = [k \in Senders |-> <<>>]
  /\ clock = 0

Init ==
  /\ \E c \in Configs :
       business = [b \in Businesses |->
                     IF b = "b1" THEN c ELSE CalendarBusiness]
  /\ bookings = <<>>
  /\ last = NoResult
  /\ reqs = [p \in Procs |-> Idle]
  /\ InitFront

(* ------------------------ how collaborators answer -------------------- *)

\* Whether checkAvailability reaches the calendar query / the bookings query.
CalReached(b, s, e) ==
  HoursCheck(business[b].hours[DayOfWeek(s)], s, e) = "" /\ business[b].calendar

CalOuts(b, s, e) ==
  IF CalReached(b, s, e)
  THEN {CalAnswer("ok", FreeBusy(w, s, e)) : w \in CalendarOptions}
       \cup {CalAnswer("init_fail", {}), CalAnswer("query_fail", {})}
  ELSE {NotAsked}

DbOuts(b, s, e, cal) ==
  IF /\ HoursCheck(business[b].hours[DayOfWeek(s)], s, e) = ""
     /\ (business[b].calendar => CalendarCheckAvailability(cal).available)
  THEN {"ok", "error"} ELSE {"na"}

(* -------------------- BookingAgent.processBooking --------------------- *)

\* The intervals customers of business b may ask for.
Candidates(b) ==
  {Interval(t, t + ServiceDuration[sv]) : t \in ReqTimes(b), sv \in ServiceNames}

\* DatabaseService.createBooking: a plain insert of a confirmed row; when the
\* datastore rejects it (ins = "rejected") it throws and no row is written.
\* linked: updateCalendarEventId stored the calendar event's id on the row.
\* cancellation_reason is null ("") and reminder_sent false on a new row.
CreateBooking(rows, b, s, e, ins, linked) ==
  IF ins = "rejected" THEN rows
  ELSE Append(rows, [business |-> b, start |-> s, end |-> e,
                     status |-> "confirmed", event |-> linked,
                     reason |-> "", reminder_sent |-> FALSE])

\* addToGoogleCalendar succeeded and updateCalendarEventId stored the event id.
Linked(b, mirror, evid) == business[b].calendar /\ mirror = "ok" /\ evid = "ok"

\* processBooking treating a failed calendar mirror like a thrown error.
ConfirmationMirrorFatal(b, cal, db, clear, ins, mirror, evid, send) ==
  IF \/ ins = "rejected"
     \/ (business[b].calendar /\ mirror = "fail")
     \/ (business[b].calendar /\ mirror = "ok" /\ evid = "throw")
     \/ send = "throw"
  THEN Failed("processBooking", "error", cal, db, ins, clear)
  ELSE Result("processBooking", TRUE, "confirmed", cal, db, ins, clear)

\* What processBooking returns from createDatabaseBooking on: the insert (ins),
\* the mirror to the calendar when one is bound (mirror: "ok" or "fail"),
\* updateCalendarEventId (evid: "ok" or "throw") and the confirmation and owner
\* messages (send: "ok" or "throw").  Anything thrown ends in the catch block.
Confirmation(b, cal, db, clear, ins, mirror, evid, send) ==
  IF \/ ins = "rejected"
     \/ (business[b].calendar /\ mirror = "ok" /\ evid = "throw")
     \/ send = "throw"
  THEN Failed("processBooking", "error", cal, db, ins, clear)
  ELSE Result("processBooking", TRUE, "confirmed", cal, db, ins, clear)

MirrorOuts(b) == IF business[b].calendar THEN {"ok", "fail"} ELSE {"na"}

EvidOuts(mirror) == IF mirror = "ok" THEN {"ok", "throw"} ELSE {"na"}

\* One processBooking call, start to finish.
ProcessBooking ==
  /\ last = NoResult
  /\ \E b \in Businesses, service \in ServiceInputs : \E when \in Whens(b) :
       LET invalid == ValidateBookingData(service, when)
           duration == GetServiceDuration(service)
           s == when.t
           e == when.t + duration
       IN  IF invalid # ""
           THEN /\ last' = Failed("processBooking", invalid, "na", "na", "na", FALSE)
                /\ UNCHANGED bookings
           ELSE IF ~ParseDateTime(when)
           THEN /\ last' = Failed("processBooking", "unparseable", "na", "na", "na", FALSE)
                /\ UNCHANGED bookings
           ELSE IF duration = 0
           THEN /\ last' = Failed("processBooking", "service_not_found", "na", "na", "na", FALSE)
                /\ UNCHANGED bookings
           ELSE \E cal \in CalOuts(b, s, e) : \E db \in DbOuts(b, s, e, cal) :
                  LET a == CheckAvailability(b, s, e, cal, db)
                      clear == Clear(b, s, e)
                  IN  IF a.threw
                      THEN /\ last' = Failed("processBooking", "error", CalTag(cal), db, "na", clear)
                           /\ UNCHANGED bookings
                      ELSE IF ~a.available
                      THEN /\ last' = Failed("processBooking", a.reason, CalTag(cal), db, "na", clear)
                           /\ UNCHANGED bookings
                      ELSE /\ Len(bookings) < MaxBookings
                           /\ \E ins \in {"ok", "rejected"}, mirror \in MirrorOuts(b),
                                 send \in {"ok", "throw"}, party \in PartySizes :
                                \E evid \in EvidOuts(mirror) :
                                  /\ bookings' = CreateBooking(bookings, b, s, e, ins,
                                                               Linked(b, mirror, evid))
                                  /\ last' = [Confirmation(b, CalTag(cal), db, clear,
                                                           ins, mirror, evid, send)
                                                EXCEPT !.party = party]
  /\ UNCHANGED <<business, reqs, front>>

(* ------------------- BookingAgent.rescheduleBooking ------------------- *)

\* The outcomes of cancelBookingEvent / updateBookingEvent where the handler
\* calls it: done ("ok"), {success: false} ("fail"), or a TypeError on
\* business.google_calendar_id when getBusinessById returns null ("throw").
EventOuts(row) ==
  IF row.event /\ business[row.business].calendar THEN {"ok", "fail", "throw"} ELSE {"na"}

\* Going on to the update whatever checkAvailability answered.
RescheduleProceedsAlways(a) == TRUE

\* `if (!availability.available) return {success: false, ...}`
RescheduleProceeds(a) == a.available

\* The update also clearing reminder_sent, so that the new time is reminded.
UpdateBookingTimesAndFlag(rows, id, s, e, upd) ==
  IF upd = "error" THEN rows
  ELSE [rows EXCEPT ![id].start = s, ![id].end = e, ![id].reminder_sent = FALSE]

\* The update of start_time and end_time of the row with that id; its error
\* (upd = "error") leaves the row as it was and is not looked at.
UpdateBookingTimes(rows, id, s, e, upd) ==
  IF upd = "error" THEN rows ELSE [rows EXCEPT ![id].start = s, ![id].end = e]

\* rescheduleBooking(bookingId, newDateTime) by the agent of the booking's
\* business.  The id one past the table stands for a booking getBookingById
\* does not return (an unknown id, or a query error: it returns null).  upd: the
\* update of start/end.  evt: updateBookingEvent, whose result is not looked at.
\* send: the customer message.
RescheduleBooking ==
  /\ last = NoResult
  /\ \E id \in 1..(Len(bookings) + 1) :
       IF id > Len(bookings)
       THEN /\ last' = Failed("rescheduleBooking", "not_found", "na", "na", "na", FALSE)
            /\ UNCHANGED bookings
       ELSE
         LET b == bookings[id].business
             duration == bookings[id].end - bookings[id].start
             e(t) == t + duration
         IN  \E t \in ReqTimes(b) :
             \E cal \in CalOuts(b, t, e(t)) : \E db \in DbOuts(b, t, e(t), cal) :
               LET a == CheckAvailability(b, t, e(t), cal, db)
                   clear == Clear(b, t, e(t))
               IN  IF a.threw
                   THEN /\ last' = Failed("rescheduleBooking", "error", CalTag(cal), db, "na", clear)
                        /\ UNCHANGED bookings
                   ELSE IF ~RescheduleProceeds(a)
                   THEN /\ last' = Failed("rescheduleBooking", a.reason, CalTag(cal), db, "na", clear)
                        /\ UNCHANGED bookings
                   ELSE \E upd \in {"ok", "error"}, send \in {"ok", "throw"} :
                        \E evt \in EventOuts(bookings[id]) :
                          /\ bookings' = UpdateBookingTimes(bookings, id, t, e(t), upd)
                          /\ last' = [(IF evt = "throw" \/ send = "throw"
                                        THEN Failed("rescheduleBooking", "error",
                                                    CalTag(cal), db, upd, clear)
                                        ELSE Result("rescheduleBooking", TRUE, "rescheduled",
                                                    CalTag(cal), db, upd, clear))
                                         EXCEPT !.evt = evt]
  /\ UNCHANGED <<business, reqs, front>>

(* --------------------- BookingAgent.cancelBooking --------------------- *)

\* The reason texts given with a cancellation.  A cancellation without one (''
\* or undefined) differs only in leaving cancellation_reason as it was.
Reasons == {"late"}

\* An update of the status that drops the reason.
UpdateBookingStatusNoReason(rows, id, status, reason) ==
  [rows EXCEPT ![id].status = status]

\* DatabaseService.updateBookingStatus(bookingId, status, reason): an update of
\* the row with that id; cancellation_reason is among the updates only
\* `if (reason)`.
UpdateBookingStatus(rows, id, status, reason) ==
  [rows EXCEPT ![id].status = status,
               ![id].reason = IF reason # "" THEN reason ELSE @]

\* `Booking cancelled${reason ? `: ${reason}` : ''}`, and the like of
\* generateCancellationMessage.
CancelMessage(reason) == IF reason # "" THEN "cancelled: " \o reason ELSE "cancelled"

\* cancelBooking(bookingId, reason).  upd: updateBookingStatus ("ok", or "throw").
\* evt: cancelBookingEvent, whose result is not looked at.  send: sendCancellation.
CancelBooking ==
  /\ last = NoResult
  /\ \E id \in 1..(Len(bookings) + 1) :
       IF id > Len(bookings)
       THEN /\ last' = Failed("cancelBooking", "not_found", "na", "na", "na", FALSE)
            /\ UNCHANGED bookings
       ELSE \E reason \in Reasons, upd \in {"ok", "throw"}, send \in {"ok", "throw"} :
            \E evt \in EventOuts(bookings[id]) :
              IF upd = "throw"
              THEN /\ last' = Failed("cancelBooking", "error", "na", "na", upd, FALSE)
                   /\ UNCHANGED bookings
              ELSE /\ bookings' = UpdateBookingStatus(bookings, id, "cancelled", reason)
                   /\ last' = [(IF evt = "throw" \/ send = "throw"
                                 THEN Failed("cancelBooking", "error", "na", "na", upd, FALSE)
                                 ELSE Result("cancelBooking", TRUE, CancelMessage(reason),
                                             "na", "na", upd, FALSE))
                                  EXCEPT !.evt = evt]
  /\ UNCHANGED <<business, reqs, front>>

(* ---------------- CancellationAgent.processCancellation --------------- *)

\* processCancellation(bookingId, reason): checkCancellationPolicy allows every
\* cancellation; then updateBookingStatus, the customer's confirmation and the
\* owner's notice (send).  It makes no call to the calendar.
ProcessCancellation ==
  /\ last = NoResult
  /\ \E id \in 1..(Len(bookings) + 1) :
       IF id > Len(bookings)
       THEN /\ last' = Failed("processCancellation", "not_found", "na", "na", "na", FALSE)
            /\ UNCHANGED bookings
       ELSE \E reason \in Reasons, upd \in {"ok", "throw"}, send \in {"ok", "throw"} :
              IF upd = "throw"
              THEN /\ last' = Failed("processCancellation", "error", "na", "na", upd, FALSE)
                   /\ UNCHANGED bookings
              ELSE /\ bookings' = UpdateBookingStatus(bookings, id, "cancelled", reason)
                   /\ last' = IF send = "throw"
                              THEN Failed("processCancellation", "error", "na", "na", upd, FALSE)
                              ELSE Result("processCancellation", TRUE, CancelMessage(reason),
                                          "na", "na", upd, FALSE)
  /\ UNCHANGED <<business, reqs, front>>

(* ---------------- SchedulerService.sendDailyReminders ----------------- *)

\* const hoursBefore = 24
HoursBefore == 24

\* getUpcomingReminders(hoursBefore): the confirmed rows with reminder_sent
\* false and now <= start_time <= now + hoursBefore hours; [] on a query error.
GetUpcomingReminders(rows, hoursBefore, qry) ==
  IF qry # "ok" THEN {}
  ELSE {i \in 1..Len(rows) :
          /\ rows[i].status = "confirmed"
          /\ ~rows[i].reminder_sent
          /\ rows[i].start >= Now
          /\ rows[i].start <= Now + hoursBefore * 60}

\* The query of the first definition of sendDailyReminders: the confirmed rows
\* with reminder_sent false that start between tomorrow 00:00 and the day after
\* 00:00; the sweep returns at once on a query error.
TomorrowsReminders(rows, qry) ==
  IF qry # "ok" THEN {}
  ELSE {i \in 1..Len(rows) :
          /\ rows[i].status = "confirmed"
          /\ ~rows[i].reminder_sent
          /\ rows[i].start >= StartOfDay(Now) + MinutesPerDay
          /\ rows[i].start <= StartOfDay(Now) + 2 * MinutesPerDay}

\* The flag set whether or not the message went out.
MarkedWhateverSend(sent, mark) == mark

\* The rows the loop marks: sendMessage throws on failure, and the catch of
\* the loop body skips the update; of the rows whose message was sent (sent),
\* those whose update went through (mark: the update's error is not looked at).
Marked(sent, mark) == sent \cap mark

\* markReminderSent / update({reminder_sent: true}) for the rows in ids.
MarkReminderSent(rows, ids) ==
  [i \in 1..Len(rows) |->
     IF i \in ids THEN [rows[i] EXCEPT !.reminder_sent = TRUE] ELSE rows[i]]

SweepOps == {"sendDailyReminders", "sendDailyReminders (first definition)"}

\* A run that flags every row its query returned, sent or not.
SweepFlaggingAll(op, qry, bookingsFound) ==
  \E sent \in SUBSET bookingsFound :
    /\ bookings' = MarkReminderSent(bookings, bookingsFound)
    /\ last' = [Result(op, TRUE, "", "na", qry, "na", FALSE)
                  EXCEPT !.selected = bookingsFound, !.sent = sent]

\* A loop that a failed send ends: the bookings after the first failure are
\* not reached.
AttemptsUntilFailure(bookingsFound, fails) ==
  [i \in bookingsFound |-> IF \E j \in fails : j < i THEN 0 ELSE 1]

\* `for (const booking of bookings) { try { ... } catch (error) { log } }`:
\* the body runs once for every row the query returned, whichever sends fail
\* (fails); the catch is inside the loop.
Attempts(bookingsFound, fails) == [i \in bookingsFound |-> 1]

\* One run of the loop over the rows the query returned.
Sweep(op, qry, bookingsFound) ==
  \E fails \in SUBSET bookingsFound : \E mark \in SUBSET bookingsFound :
    LET attempts == Attempts(bookingsFound, fails)
        sent == {i \in bookingsFound \ fails : attempts[i] > 0}
    IN  /\ bookings' = MarkReminderSent(bookings, Marked(sent, mark))
        /\ last' = [Result(op, TRUE, "", "na", qry, "na", FALSE)
                      EXCEPT !.selected = bookingsFound, !.sent = sent,
                             !.attempts = attempts]

\* sendDailyReminders as defined second in scheduler.js, run by cron: it may
\* start whenever no call is pending, also right after another sweep.
SendDailyReminders ==
  /\ last = NoResult \/ last.op \in SweepOps
  /\ \E qry \in {"ok", "error"} :
       Sweep("sendDailyReminders", qry, GetUpcomingReminders(bookings, HoursBefore, qry))
  /\ UNCHANGED <<business, reqs, front>>

\* sendDailyReminders as defined first in scheduler.js.
SendDailyRemindersFirst ==
  /\ last = NoResult \/ last.op \in SweepOps
  /\ \E qry \in {"ok", "error"} :
       Sweep("sendDailyReminders (first definition)", qry, TomorrowsReminders(bookings, qry))
  /\ UNCHANGED <<business, reqs, front>>

(* --------------------------- specification ---------------------------- *)

\* The caller takes the result (the webhook handler turns it into its reply);
\* the next call starts after that.
Return ==
  /\ last # NoResult
  /\ last' = NoResult
  /\ UNCHANGED <<business, bookings, reqs, front>>

\* Calls that each run to completion before the next one starts.
Next ==
  ProcessBooking \/ RescheduleBooking \/ CancelBooking \/ ProcessCancellation \/ Return

Spec == Init /\ [][Next]_vars

(* ------------------------ calls and the sweep ------------------------- *)

\* Hours '09:00-09:45' on day 0 and '00:00-00:30' on day 1.
SweepHours == Hours(Range(9, 0, 9, 45), Range(0, 0, 0, 30))

InitSweep ==
  /\ business = [b \in Businesses |->
                   IF b = "b1" THEN Config(SweepHours, NoBuffer, FALSE)
                   ELSE CalendarBusiness]
  /\ bookings = <<>>
  /\ last = NoResult
  /\ reqs = [p \in Procs |-> Idle]
  /\ InitFront

\* Bookings are made and cancelled, and the reminder sweep runs between calls.
NextSweep ==
  \/ ProcessBooking
  \/ CancelBooking
  \/ SendDailyReminders
  \/ SendDailyRemindersFirst
  \/ Return

SpecSweep == InitSweep /\ [][NextSweep]_vars

\* cron starts the sweep every day (scheduler.js 17 and 125), so sweeps keep
\* running: a call that has finished returns, and for every booking a run in
\* which its message goes out and its flag is stored happens again and again
\* for as long as the query keeps returning the booking.
SweepFairness ==
  /\ WF_vars(Return)
  /\ \A i \in 1..MaxBookings :
       /\ SF_vars(SendDailyReminders
                    /\ i \in last'.sent /\ bookings'[i].reminder_sent)
       /\ SF_vars(SendDailyRemindersFirst
                    /\ i \in last'.sent /\ bookings'[i].reminder_sent)

\* Rows that processBooking and cancelBooking leave in the table under the
\* businesses of InitSweep: a booking of b1 later today, one of b1 at 00:00
\* tomorrow, that one cancelled, and a booking of b2 that has already begun.
SweepRows ==
  LET New(b, s, e) == CreateBooking(<<>>, b, s, e, "ok", FALSE)[1]
      tomorrow == New("b1", MinutesPerDay, MinutesPerDay + 30)
  IN  {New("b1", 9 * 60 + 15, 9 * 60 + 30),
       tomorrow,
       UpdateBookingStatus(<<tomorrow>>, 1, "cancelled", "late")[1],
       New("b2", 9 * 60, 9 * 60 + 15)}

\* The sweep finds any of these rows in the table, in any order.
InitSweepLive ==
  /\ business = [b \in Businesses |->
                   IF b = "b1" THEN Config(SweepHours, NoBuffer, FALSE)
                   ELSE CalendarBusiness]
  /\ bookings \in {rows \in UNION {[1..n -> SweepRows] : n \in 1..MaxBookings} :
                     \A x, y \in DOMAIN rows : rows[x] = rows[y] => x = y}
  /\ last = NoResult
  /\ reqs = [p \in Procs |-> Idle]
  /\ InitFront

\* The sweep runs again and again over the table.
NextSweepLive ==
  \/ SendDailyReminders
  \/ SendDailyRemindersFirst
  \/ Return

SpecSweepLive == InitSweepLive /\ [][NextSweepLive]_vars /\ SweepFairness

\* A business open 09:00-09:45 on day 0, so that bookings can be moved within
\* the day, and the calendar-bound one.
InitLedger ==
  /\ business = [b \in Businesses |->
                   IF b = "b1" THEN Config(DefaultHours, NoBuffer, FALSE)
                   ELSE CalendarBusiness]
  /\ bookings = <<>>
  /\ last = NoResult
  /\ reqs = [p \in Procs |-> Idle]
  /\ InitFront

\* The agent's operations that write the bookings table, and the sweep
\* (markReminderSent) between them.
NextLedger ==
  \/ ProcessBooking
  \/ RescheduleBooking
  \/ CancelBooking
  \/ SendDailyReminders
  \/ Return

SpecLedger == InitLedger /\ [][NextLedger]_vars

(* ---------------------- interleaved processBooking -------------------- *)

\* processBooking awaits its datastore calls, so two webhook requests (of one
\* process, or of two instances) interleave there.  Each request p asks once.

\* processBooking of request p up to the await of createDatabaseBooking: the
\* early returns, and checkAvailability with its read of the bookings table.
ProcessBookingRead(p) ==
  /\ reqs[p].pc = "idle"
  /\ \E b \in Businesses, service \in ServiceInputs : \E when \in Whens(b) :
       LET invalid == ValidateBookingData(service, when)
           duration == GetServiceDuration(service)
           s == when.t
           e == when.t + duration
           return(r) == reqs' = [reqs EXCEPT ![p] = Done(r)]
       IN  IF invalid # ""
           THEN return(Failed("processBooking", invalid, "na", "na", "na", FALSE))
           ELSE IF ~ParseDateTime(when)
           THEN return(Failed("processBooking", "unparseable", "na", "na", "na", FALSE))
           ELSE IF duration = 0
           THEN return(Failed("processBooking", "service_not_found", "na", "na", "na", FALSE))
           ELSE \E cal \in CalOuts(b, s, e) : \E db \in DbOuts(b, s, e, cal) :
                  LET a == CheckAvailability(b, s, e, cal, db)
                      clear == Clear(b, s, e)
                  IN  IF a.threw
                      THEN return(Failed("processBooking", "error", CalTag(cal), db, "na", clear))
                      ELSE IF ~a.available
                      THEN return(Failed("processBooking", a.reason, CalTag(cal), db, "na", clear))
                      ELSE reqs' = [reqs EXCEPT ![p] =
                             Request("checked", b, s, e, Len(bookings), 0,
                                     Failed("processBooking", "", CalTag(cal), db, "na", clear))]
  /\ UNCHANGED <<business, bookings, last, front>>

\* The rest of request p: the insert, the calendar mirror, the messages.
ProcessBookingWrite(p) ==
  /\ reqs[p].pc = "checked"
  /\ Len(bookings) < MaxBookings
  /\ LET r == reqs[p]
     IN  \E ins \in {"ok", "rejected"}, mirror \in MirrorOuts(r.b),
            send \in {"ok", "throw"}, party \in PartySizes :
           \E evid \in EvidOuts(mirror) :
             /\ bookings' = CreateBooking(bookings, r.b, r.start, r.end, ins,
                                          Linked(r.b, mirror, evid))
             /\ reqs' = [reqs EXCEPT ![p] =
                  Request("done", r.b, r.start, r.end, r.seen,
                          IF ins = "ok" THEN Len(bookings) + 1 ELSE 0,
                          [Confirmation(r.b, r.result.cal, r.result.db, r.result.clear,
                                        ins, mirror, evid, send)
                             EXCEPT !.party = party])]
  /\ UNCHANGED <<business, last, front>>

NextRace == \E p \in Procs : ProcessBookingRead(p) \/ ProcessBookingWrite(p)

SpecRace == Init /\ [][NextRace]_vars

(* -------------------------- rateLimitMiddleware ----------------------- *)

\* const rateLimitWindow = 60 * 1000
RateLimitWindow == 60 * 1000

\* const maxRequests = 10
MaxRequests == 10

\* Requests arrive half a window apart or at the same millisecond, for
\* MaxTicks half windows; MaxPassed requests are handed on in all.
MaxTicks == 3

MaxPassed == 12

Tick == RateLimitWindow \div 2

\* Letting one request too many through.
LimitReachedAbove(userData) == userData.count > MaxRequests

\* `if (userData.count >= maxRequests)`
LimitReached(userData) == userData.count >= MaxRequests

\* `if (now > userData.resetTime)`
WindowOver(now, userData) == now > userData.resetTime

\* rateLimit.set(userPhone, {count: 1, resetTime: now + rateLimitWindow}), and
\* the same two assignments on the entry of a sender whose window is over.
NewWindow(map, userPhone, now) ==
  [k \in DOMAIN map \cup {userPhone} |->
     IF k = userPhone THEN [count |-> 1, resetTime |-> now + RateLimitWindow]
     ELSE map[k]]

\* rateLimitMiddleware(req, res, next) for a request of any sender: next() is
\* called (hook.pc "next") or the response is 429.
RateLimitMiddleware ==
  /\ hook.pc \in {"idle", "next", "429"}
  /\ Len(passed[Phone]) + Len(passed[Ip]) < MaxPassed
  /\ \E userPhone \in Senders :
       LET now == clock
           next == /\ passed' = [passed EXCEPT ![userPhone] = Append(@, now)]
                   /\ hook' = Hook("next", userPhone, "", "", 0)
       IN  IF userPhone \notin DOMAIN rateLimit
           THEN rateLimit' = NewWindow(rateLimit, userPhone, now) /\ next
           ELSE IF WindowOver(now, rateLimit[userPhone])
           THEN rateLimit' = NewWindow(rateLimit, userPhone, now) /\ next
           ELSE IF LimitReached(rateLimit[userPhone])
           THEN /\ hook' = Hook("429", userPhone, "", "", 0)
                /\ UNCHANGED <<rateLimit, passed>>
           ELSE /\ rateLimit' = [rateLimit EXCEPT ![userPhone].count = @ + 1]
                /\ next
  /\ UNCHANGED <<business, bookings, last, reqs, clock>>

\* Time passes between requests.
Advance ==
  /\ clock < MaxTicks * Tick
  /\ clock' = clock + Tick
  /\ UNCHANGED <<business, bookings, last, reqs, hook, rateLimit, passed>>

NextRate == RateLimitMiddleware \/ Advance

SpecRate == InitSweep /\ [][NextRate]_vars

(* -------------------- WebhookHandler.handleIncomingMessage ------------ *)

\* What GroqService.processMessage may extract from a customer's message.
Intents == {"booking", "inquiry", "cancellation"}

Actions == {"confirm", "ask_time", "complete"}

\* handleIncomingMessage up to its branch on the extracted intent: only
\* intent 'booking' with action 'confirm' goes on to processBooking; any other
\* message, and one for which the language model call throws (ai), is answered
\* with a reply and nothing else.
HandleIncomingMessage ==
  /\ hook.pc # "processBooking"
  /\ last = NoResult
  /\ \E from \in Senders, intent \in Intents, action \in Actions, ai \in {"ok", "throw"} :
       hook' = Hook(IF ai = "ok" /\ intent = "booking" /\ action = "confirm"
                    THEN "processBooking" ELSE "replied",
                    from, intent, action, 0)
  /\ UNCHANGED <<business, bookings, last, reqs, rateLimit, passed, clock>>

\* `await bookingAgent.processBooking(aiResponse.data, conversation, userPhone)`
WebhookProcessBooking ==
  /\ hook.pc = "processBooking"
  /\ ProcessBooking

\* The handler with bookingResult in hand.  processBooking returns success only
\* after its own sendConfirmation to the customer returned; on success the
\* handler updates the conversation (upd) and calls sendConfirmation for the
\* same customer itself (send), and anything thrown there only changes the
\* reply.  When processBooking failed after its insert, its confirmation may or
\* may not have gone out before the throw.
HandleBookingResult ==
  /\ hook.pc = "processBooking"
  /\ last.op = "processBooking"
  /\ \E upd \in {"ok", "throw"}, send \in {"ok", "throw"}, agentSent \in {0, 1} :
       /\ last.success => agentSent = 1
       /\ (~last.success /\ last.ins # "ok") => agentSent = 0
       /\ hook' = [hook EXCEPT
                     !.pc = IF last.success THEN "booked" ELSE "not_booked",
                     !.confirmations =
                        agentSent + (IF last.success /\ upd = "ok" /\ send = "ok"
                                     THEN 1 ELSE 0)]
  /\ last' = NoResult
  /\ UNCHANGED <<business, bookings, reqs, rateLimit, passed, clock>>

\* One webhook request after the other.
NextWebhook ==
  HandleIncomingMessage \/ WebhookProcessBooking \/ HandleBookingResult

SpecWebhook == Init /\ [][NextWebhook]_vars

(* ------------------------- interleaved sweeps ------------------------- *)

\* sendDailyReminders awaits its query, every send and every update, so two
\* runs interleave there: the cron run and triggerRemindersManually, or the
\* cron runs of two instances.  Each run p is started once.

\* `const bookings = await DatabaseService.getUpcomingReminders(hoursBefore)`
SweepQuery(p) ==
  /\ reqs[p].pc = "idle"
  /\ \E qry \in {"ok", "error"} :
       LET found == GetUpcomingReminders(bookings, HoursBefore, qry)
           run == [Result("sendDailyReminders", TRUE, "", "na", qry, "na", FALSE)
                     EXCEPT !.selected = found]
       IN  reqs' = [reqs EXCEPT ![p] =
                      [Request(IF found = {} THEN "done" ELSE "sweeping",
                               "b1", 0, 0, 0, 0, run) EXCEPT !.todo = found]]
  /\ UNCHANGED <<business, bookings, last, front>>

\* One pass of the loop body: the message to the booking's customer, then
\* markReminderSent; a send that throws skips the update.
SweepRemind(p) ==
  /\ reqs[p].pc = "sweeping"
  /\ \E i \in reqs[p].todo : \E send \in {"ok", "throw"}, mark \in {"ok", "error"} :
       LET sent == IF send = "ok" THEN {i} ELSE {}
           rest == reqs[p].todo \ {i}
       IN  /\ bookings' = MarkReminderSent(bookings,
                            Marked(sent, IF mark = "ok" THEN {i} ELSE {}))
           /\ reqs' = [reqs EXCEPT
                         ![p].result.sent = @ \cup sent,
                         ![p].todo = rest,
                         ![p].pc = IF rest = {} THEN "done" ELSE "sweeping"]
  /\ UNCHANGED <<business, last, front>>

\* Bookings are made while the two runs are under way.
NextSweepRace ==
  \/ ProcessBooking
  \/ Return
  \/ \E p \in Procs : SweepQuery(p) \/ SweepRemind(p)

SpecSweepRace == InitSweep /\ [][NextSweepRace]_vars

(* ------------------------------ properties ---------------------------- *)

\* The stored hours of business b for the day of instant t.
HoursOn(b, t) == business[b].hours[DayOfWeek(t)]

\* The stored text yields an open and a close instant.
Parsed(h, t) ==
  /\ h.kind = "text" /\ ~HoursThrows(h)
  /\ OpenDateTime(h, t).valid /\ CloseDateTime(h, t).valid

\* Malformed hours text: no '-' separator, a component that is not a number, or
\* close <= open.
Malformed(h, t) ==
  /\ h.kind = "text"
  /\ \/ ~Parsed(h, t)
     \/ CloseDateTime(h, t).t <= OpenDateTime(h, t).t

\* [s, e) lies in the open window of its day.
InsideWindow(b, s, e) ==
  /\ Parsed(HoursOn(b, s), s)
  /\ OpenDateTime(HoursOn(b, s), s).t <= s
  /\ e <= CloseDateTime(HoursOn(b, s), s).t

Confirmed(i) == bookings[i].status = "confirmed"

Overlap(s1, e1, s2, e2) == ~(e1 <= s2 \/ e2 <= s1)

\* The row a processBooking call that has just finished inserted.
Inserted == last.op = "processBooking" /\ last.ins = "ok"

CalendarFailures == {CalAnswer("init_fail", {}), CalAnswer("query_fail", {})}

\* C1: after calls that each run to completion before the next starts, no two
\* distinct confirmed bookings of one business overlap.
C1_NoOverlap ==
  \A i, j \in Ids :
    (i # j /\ bookings[i].business = bookings[j].business /\ Confirmed(i) /\ Confirmed(j))
      => (bookings[i].end <= bookings[j].start \/ bookings[j].end <= bookings[i].start)

\* C2: when two processBooking requests for overlapping intervals of one
\* business both read the bookings table (and are answered) before either
\* inserts, at most one of them persists a booking.
C2_AtMostOneCommits ==
  \A p, q \in Procs :
    ( /\ p # q
      /\ reqs[p].pc = "done" /\ reqs[q].pc = "done"
      /\ reqs[p].b = reqs[q].b
      /\ Overlap(reqs[p].start, reqs[p].end, reqs[q].start, reqs[q].end)
      /\ reqs[p].result.db = "ok" /\ reqs[q].result.db = "ok"
      /\ reqs[p].seen = 0 /\ reqs[q].seen = 0 )
    => ~(reqs[p].row # 0 /\ reqs[q].row # 0)

\* C3: when the datastore rejects the insert, processBooking reports a slot
\* conflict, as for a conflict found by the pre-check, not a generic error.
C3_RejectedInsertIsConflict ==
  (last.op = "processBooking" /\ last.ins = "rejected") => last.msg = "already_booked"

\* C4: after processBooking commits a booking, checkAvailability on the same
\* interval for the same business (the bookings query answered, whatever the
\* calendar says) returns available=false with the already-booked reason.
C4_RoundTrip ==
  Inserted =>
    LET r == bookings[Len(bookings)]
    IN  \A cal \in CalOuts(r.business, r.start, r.end) :
          LET a == CheckAvailability(r.business, r.start, r.end, cal, "ok")
          IN  ~a.threw /\ ~a.available /\ a.reason = "already_booked"

\* C4 witness: a booking inside business hours has just been committed and confirmed.
C4_Committed == Inserted /\ last.success /\ last.clear

\* C5: with buffer b = buffer_minutes, a candidate that passes the hours and
\* calendar stages is rejected exactly when some confirmed booking E of the
\* business on its day has C.start < E.end + b and C.end > E.start - b.
C5_BufferZone ==
  \A b \in Businesses : \A c \in Candidates(b) :
    LET a == CheckAvailability(b, c.start, c.end, CalAnswer("ok", {}), "ok")
        zone == \E i \in Ids :
                  /\ bookings[i].business = b /\ Confirmed(i)
                  /\ DayOf(bookings[i].start) = DayOf(c.start)
                  /\ c.start < bookings[i].end + ConfiguredBuffer(b)
                  /\ c.end > bookings[i].start - ConfiguredBuffer(b)
    IN  HoursCheck(HoursOn(b, c.start), c.start, c.end) = "" => (a.available <=> ~zone)

\* C6: whenever a call may start, checkAvailability answers any candidate
\* unavailable for hours when the weekday has no entry or 'closed', or the
\* candidate starts before open or ends after close; a candidate with
\* open <= start and end <= close is never refused for hours.
C6_HoursRule ==
  last = NoResult =>
  \A b \in Businesses : \A c \in Candidates(b) :
    LET h == HoursOn(b, c.start)
        refusals == {Unavailable("closed", FALSE), Unavailable("outside_hours", FALSE)}
        outside == \/ h.kind \in {"none", "closed"}
                   \/ /\ Parsed(h, c.start)
                      /\ \/ c.start < OpenDateTime(h, c.start).t
                         \/ c.end > CloseDateTime(h, c.start).t
        inside == /\ Parsed(h, c.start)
                  /\ OpenDateTime(h, c.start).t <= c.start
                  /\ c.end <= CloseDateTime(h, c.start).t
    IN  \A cal \in CalOuts(b, c.start, c.end) : \A db \in DbOuts(b, c.start, c.end, cal) :
          /\ outside => CheckAvailability(b, c.start, c.end, cal, db) \in refusals
          /\ inside => CheckAvailability(b, c.start, c.end, cal, db) \notin refusals

\* C6 witness: under hours 09:00-09:45 a request has been refused as outside hours.
C6_RefusedOutsideHours ==
  /\ last.op = "processBooking" /\ last.msg = "outside_hours"
  /\ business["b1"].hours["mon"] = Range(9, 0, 9, 45)

\* C7: every interval written by processBooking or rescheduleBooking lies in the
\* business-hours window of its day (open <= start and end <= close).
C7_WrittenInsideHours ==
  \A i \in Ids : InsideWindow(bookings[i].business, bookings[i].start, bookings[i].end)

\* C8: when the stored hours of the candidate's weekday are malformed, the
\* request fails closed: availability is not reported as true, so no booking
\* or rescheduled interval is ever written for such a day.
C8_MalformedFailsClosed ==
  \A i \in Ids :
    ~Malformed(HoursOn(bookings[i].business, bookings[i].start), bookings[i].start)

\* C9: when the calendar query fails, checkAvailability still rejects a candidate
\* overlapping a confirmed internal booking, and flags its result as degraded.
C9_DegradedFlagged ==
  \A b \in Businesses : \A c \in Candidates(b) :
    ( /\ CalReached(b, c.start, c.end)
      /\ \E i \in Ids : /\ bookings[i].business = b /\ Confirmed(i)
                        /\ Overlap(c.start, c.end, bookings[i].start, bookings[i].end) )
    => \A cal \in CalendarFailures :
         LET a == CheckAvailability(b, c.start, c.end, cal, "ok")
         IN  /\ ~a.available
             /\ "degraded" \in AvailabilityFields(a)

\* C10: when the calendar query fails and the candidate is inside business hours
\* with no internal conflict or buffer violation, processBooking is not refused
\* as unavailable, and a confirmed result carries a degraded/warning flag.
C10_ProceedsInternalOnly ==
  ( /\ last.op = "processBooking"
    /\ last.cal \in {"init_fail", "query_fail"}
    /\ last.clear )
  => /\ last.msg \notin {"already_booked", "buffer", "closed", "outside_hours"}
     /\ last.success => "degraded" \in ResultFields(last)


\* C11: if the query for the day's confirmed bookings fails, the request fails
\* and nothing is committed: a failed lookup never counts as 'no bookings'.
C11_LookupFailureFailsClosed ==
  (last.op = "processBooking" /\ last.db = "error")
    => (~last.success /\ last.ins # "ok")

\* C12: the reasons for a refusal differ by source: a request that is inside
\* hours and clear of every confirmed internal booking, and that only an
\* external busy window conflicts with, is refused as calendar_busy, not with
\* the internal already_booked reason.
C12_DistinctReasons ==
  ( /\ last.op \in {"processBooking", "rescheduleBooking"}
    /\ last.cal = "busy"
    /\ last.clear )
  => last.msg = "calendar_busy"

\* Every answer a calendar could give about [s, e), asked or not.
AnyCalAnswer(s, e) ==
  {NotAsked} \cup CalendarFailures
  \cup {CalAnswer("ok", FreeBusy(w, s, e)) : w \in CalendarOptions}

\* C13: for a business with no calendar bound, whenever a call may start,
\* checkAvailability asks no calendar (CalOuts) and its answer does not depend on
\* anything a calendar could say; a candidate inside hours and clear of the
\* confirmed bookings and their buffer is available; and no row of the business
\* carries a calendar event.
C13_NoBindingNoConstraint ==
  last = NoResult =>
    \A b \in Businesses : ~business[b].calendar =>
      /\ \A c \in Candidates(b) :
           /\ CalOuts(b, c.start, c.end) = {NotAsked}
           /\ \A cal \in AnyCalAnswer(c.start, c.end) :
                CheckAvailability(b, c.start, c.end, cal, "ok")
                  = CheckAvailability(b, c.start, c.end, NotAsked, "ok")
           /\ Clear(b, c.start, c.end)
                => CheckAvailability(b, c.start, c.end, NotAsked, "ok") = Available
      /\ \A i \in Ids : bookings[i].business = b => ~bookings[i].event

\* C13 witness: a booking of the business without a calendar has been confirmed.
C13_BookedWithoutCalendar ==
  /\ Inserted /\ last.success /\ last.cal = "na"
  /\ ~business[bookings[Len(bookings)].business].calendar


Durations == {ServiceDuration[sv] : sv \in ServiceNames}

\* What getDayEvents may return for the day of `date`.
DayEventsOuts(date) ==
  {GetDayEvents(w, date, out) : w \in CalendarOptions, out \in {"ok", "fail"}}

C15_SlotsAreAvailable ==
  \A b \in Businesses : \A c \in Candidates(b) : \A w \in CalendarOptions :
    LET r == GetAvailableSlots(HoursOn(b, c.start), c.start, c.end - c.start,
                               GetDayEvents(w, c.start, "ok"))
    IN  \A k \in 1..Len(r.slots) :
          CheckAvailability(b, r.slots[k].start, r.slots[k].end,
                            IF business[b].calendar
                            THEN CalAnswer("ok", FreeBusy(w, r.slots[k].start, r.slots[k].end))
                            ELSE NotAsked,
                            "ok").available

\* C16: whenever a call may start, every slot the generator returns for duration
\* D has open <= start and start + D <= close; a day with no hours entry or
\* marked closed (or whose hours do not parse) yields no slots.
C16_SlotsInsideWindow ==
  last = NoResult =>
    \A b \in Businesses : \A c \in Candidates(b) : \A D \in Durations :
      \A events \in DayEventsOuts(c.start) :
        LET h == HoursOn(b, c.start)
            r == GetAvailableSlots(h, c.start, D, events)
        IN  /\ ~Parsed(h, c.start) => r.slots = <<>>
            /\ \A k \in 1..Len(r.slots) :
                 /\ r.slots[k].start >= OpenDateTime(h, c.start).t
                 /\ r.slots[k].end = r.slots[k].start + D
                 /\ r.slots[k].start + D <= CloseDateTime(h, c.start).t

\* C16 witness: a request of the calendar-bound business has been refused with
\* the calendar not initialised, and the generator has slots to offer.
C16_SlotsOffered ==
  /\ last.op = "processBooking" /\ last.cal = "init_fail"
  /\ GetAvailableSlots(HoursOn("b2", 9 * 60), 9 * 60, 30, {}).slots # <<>>

\* C17: whenever a call may start, the slot list is finite, strictly ascending
\* by start, and every start is open + 15*k minutes for some k >= 0.
C17_SlotsAscendingOnGrid ==
  last = NoResult =>
    \A b \in Businesses : \A c \in Candidates(b) : \A D \in Durations :
      \A events \in DayEventsOuts(c.start) :
        LET h == HoursOn(b, c.start)
            slots == GetAvailableSlots(h, c.start, D, events).slots
        IN  /\ \A k \in 1..Len(slots) :
                 /\ slots[k].start >= OpenDateTime(h, c.start).t
                 /\ (slots[k].start - OpenDateTime(h, c.start).t) % 15 = 0
            /\ \A k \in 1..(Len(slots) - 1) : slots[k].start < slots[k + 1].start

\* C17 witness: a request has been refused with the freebusy query failed, and
\* the generator returns more than one slot.
C17_SeveralSlots ==
  /\ last.op = "processBooking" /\ last.cal = "query_fail"
  /\ Len(GetAvailableSlots(HoursOn("b2", 9 * 60), 9 * 60, 15, {}).slots) > 1


\* The messages of a refusal by checkAvailability.
RefusalReasons == {"closed", "outside_hours", "already_booked", "buffer"}

\* C18: when checkAvailability reports the requested interval unavailable,
\* processBooking persists nothing and does not reach the insert, the calendar
\* mirror or the confirmation, and the suggestions offered (by the calendar
\* branch, the only one that offers any) number at most 3.
C18_RefusalLeavesNoTrace ==
  [][ (last = NoResult /\ last'.op = "processBooking" /\ last'.msg \in RefusalReasons)
        => /\ bookings' = bookings
           /\ ~last'.success /\ last'.ins = "na"
           /\ \A b \in {x \in Businesses : business[x].calendar} :
                \A c \in Candidates(b) : \A events \in DayEventsOuts(c.start) :
                  Len(Suggestions(GetAvailableSlots(HoursOn(b, c.start), c.start,
                                                    c.end - c.start, events).slots)) <= 3
    ]_vars

\* C18 witness: a request has been refused at the calendar stage while the
\* generator has more than three slots for the day.
C18_RefusedWithManySlots ==
  /\ last.op = "processBooking" /\ last.msg \in RefusalReasons /\ last.cal # "na"
  /\ Len(GetAvailableSlots(HoursOn("b2", 9 * 60), 9 * 60, 15, {}).slots) > 3

\* C19: a failed mirror to the calendar neither rolls back nor fails the
\* commit: the inserted row stays, confirmed, and with the insert and the
\* messages succeeding processBooking reports success.
C19_MirrorFailureKeepsBooking ==
  /\ Inserted => bookings[Len(bookings)].status = "confirmed"
  /\ last = NoResult =>
       \A b \in Businesses : \A c \in Candidates(b) :
         business[b].calendar =>
           /\ Confirmation(b, "free", "ok", TRUE, "ok", "fail", "na", "ok").success
           /\ LET rows == CreateBooking(bookings, b, c.start, c.end, "ok",
                                        Linked(b, "fail", "na"))
              IN  /\ Len(rows) = Len(bookings) + 1
                  /\ rows[Len(rows)].status = "confirmed"
                  /\ rows[Len(rows)].start = c.start /\ rows[Len(rows)].end = c.end

\* C19 witness: processBooking has reported success for a booking of the
\* calendar-bound business whose row carries no calendar event.
C19_ConfirmedUnmirrored ==
  /\ Inserted /\ last.success
  /\ business[bookings[Len(bookings)].business].calendar
  /\ ~bookings[Len(bookings)].event

\* The messages processBooking answers before it looks at availability.
ValidationMessages == {"missing_fields", "past", "unparseable", "service_not_found"}

\* C21: a request that fails structural validation (a field missing, date/time
\* unparseable, timestamp in the past, service not found) is answered with a
\* validation message and has no side effect: processBooking with a validation
\* message reached neither the calendar, the bookings query nor the insert, and
\* no booking it inserts starts in the past.
C21_ValidationFailureNoEffects ==
  /\ (last.op = "processBooking" /\ last.msg \in ValidationMessages)
       => (~last.success /\ last.cal = "na" /\ last.db = "na" /\ last.ins = "na")
  /\ Inserted => bookings[Len(bookings)].start >= Now

\* C22: a request whose party size is present and is not a positive number is
\* rejected at validation, and no booking is created for it.
C22_PartySizeValidated ==
  (last.op = "processBooking" /\ last.party.given /\ last.party.v < 1)
    => (last.msg \in ValidationMessages /\ last.ins = "na")

CancelOps == {"cancelBooking", "processCancellation"}

\* C23: a cancellation (by either agent) removes no booking record and changes
\* no booking's identifier, business, start, end or event reference; when its
\* status update goes through, exactly the booking asked about becomes
\* cancelled with the given reason recorded (with no reason given, the stored
\* reason stays as it was), and a successful call names that reason.
C23_CancelKeepsRecord ==
  [][ (last = NoResult /\ last'.op \in CancelOps)
        => /\ Len(bookings') = Len(bookings)
           /\ \A i \in Ids :
                /\ bookings'[i].business = bookings[i].business
                /\ bookings'[i].start = bookings[i].start
                /\ bookings'[i].end = bookings[i].end
                /\ bookings'[i].event = bookings[i].event
           /\ last'.ins # "ok" => bookings' = bookings
           /\ last'.ins = "ok" =>
                \E i \in Ids, reason \in Reasons :
                  /\ bookings' = [bookings EXCEPT ![i].status = "cancelled",
                                                  ![i].reason = reason]
                  /\ last'.success => last'.msg = CancelMessage(reason)
           /\ \A i \in Ids :
                UpdateBookingStatus(bookings, i, "cancelled", "")
                  = [bookings EXCEPT ![i].status = "cancelled"]
    ]_vars

\* C23 witness: a cancellation has succeeded and the booking is kept, cancelled,
\* with the reason recorded.
C23_CancelledWithReason ==
  /\ last.op \in CancelOps /\ last.success
  /\ \E i \in Ids : bookings[i].status = "cancelled" /\ bookings[i].reason = "late"

\* C24: whenever a cancellation path (cancelBooking, processCancellation) turns
\* a confirmed booking that has a calendar event, of a business with a calendar
\* bound, into a cancelled one, it attempts the cancellation of that event;
\* whatever the attempt's outcome, the booking stays cancelled.
C24_CancelAttemptsEventCancel ==
  [][ \A i \in Ids :
        ( /\ last = NoResult /\ last'.op \in CancelOps
          /\ bookings[i].status = "confirmed" /\ bookings'[i].status = "cancelled"
          /\ bookings[i].event /\ business[bookings[i].business].calendar )
        => last'.evt \in {"ok", "fail", "throw"}
    ]_vars

\* C25: cancelled is terminal: no step sets the status of a cancelled booking
\* back to confirmed or changes its start or end.
C25_CancelledIsTerminal ==
  [][ \A i \in Ids :
        bookings[i].status = "cancelled"
          => /\ bookings'[i].status = "cancelled"
             /\ bookings'[i].start = bookings[i].start
             /\ bookings'[i].end = bookings[i].end
    ]_vars

\* C26: a rescheduleBooking call refused by checkAvailability (hours, internal
\* conflict, buffer, calendar busy) leaves every booking as it was, updates no
\* calendar event and sends no 'rescheduled' message (it fails before both); a
\* booking is given a new interval only if checkAvailability, asked in the state
\* before the call, answered that interval available.
C26_RefusedRescheduleUntouched ==
  [][ (last = NoResult /\ last'.op = "rescheduleBooking")
        => /\ Len(bookings') = Len(bookings)
           /\ last'.msg \in RefusalReasons
                => /\ bookings' = bookings
                   /\ ~last'.success /\ last'.ins = "na" /\ last'.evt = "na"
           /\ \A i \in Ids :
                bookings'[i] # bookings[i] =>
                  \E cal \in CalOuts(bookings[i].business, bookings'[i].start, bookings'[i].end) :
                    \E db \in DbOuts(bookings[i].business, bookings'[i].start,
                                      bookings'[i].end, cal) :
                      CheckAvailability(bookings[i].business, bookings'[i].start,
                                        bookings'[i].end, cal, db).available
    ]_vars

\* C26 witness: a rescheduleBooking call has been refused for a conflict with an
\* internal booking.
C26_RescheduleRefused ==
  /\ last.op = "rescheduleBooking" /\ last.msg = "already_booked"
  /\ last.cal \in {"na", "free"} /\ last.db = "ok"

\* C27: a rescheduleBooking call that reports success wrote the new interval:
\* no record was added, one booking has a new start and end with its duration,
\* identifier and status as before, every other booking is as it was, and the
\* booking's calendar event (when it has one and a calendar is bound) was
\* updated.
C27_RescheduleInPlace ==
  [][ (last = NoResult /\ last'.op = "rescheduleBooking" /\ last'.success)
        => /\ last'.ins = "ok"
           /\ \E i \in Ids : \E t \in ReqTimes(bookings[i].business) :
                /\ bookings' = [bookings EXCEPT
                                  ![i].start = t,
                                  ![i].end = t + (bookings[i].end - bookings[i].start)]
                /\ (bookings[i].event /\ business[bookings[i].business].calendar)
                     => last'.evt = "ok"
    ]_vars

\* A step that is one run of the reminder sweep.
SweepStep == last'.op \in SweepOps /\ (last = NoResult \/ last.op \in SweepOps)

\* The bookings due a reminder: confirmed, not yet reminded, starting within
\* [now, now + thresholdHours].
Eligible(rows) ==
  {i \in 1..Len(rows) :
     /\ rows[i].status = "confirmed" /\ ~rows[i].reminder_sent
     /\ Now <= rows[i].start /\ rows[i].start <= Now + HoursBefore * 60}

\* C28: a reminder sweep whose query is answered selects exactly the bookings
\* that are confirmed, not yet reminded and start within [now, now + 24 h]; any
\* sweep sends reminders to such bookings only.
C28_SweepSelection ==
  [][ SweepStep
        => /\ last'.db = "ok" => last'.selected = Eligible(bookings)
           /\ last'.sent \subseteq Eligible(bookings)
    ]_vars

\* What the next run of the same sweep would select from rows.
SelectedBy(op, rows) ==
  IF op = "sendDailyReminders"
  THEN GetUpcomingReminders(rows, HoursBefore, "ok")
  ELSE TomorrowsReminders(rows, "ok")

\* C29: a sweep changes nothing but reminder_sent flags, and sets the flag of
\* a booking only if the reminder to that booking was sent in the same run; a
\* selected booking whose send failed keeps the flag false and is selected
\* again by the next sweep.
C29_FlagAfterSend ==
  [][ SweepStep
        => /\ Len(bookings') = Len(bookings)
           /\ \A i \in Ids :
                /\ [bookings'[i] EXCEPT !.reminder_sent = FALSE]
                     = [bookings[i] EXCEPT !.reminder_sent = FALSE]
                /\ bookings[i].reminder_sent => bookings'[i].reminder_sent
                /\ (bookings'[i].reminder_sent /\ ~bookings[i].reminder_sent)
                     => i \in last'.sent
                /\ (i \in last'.selected /\ i \notin last'.sent)
                     => /\ ~bookings'[i].reminder_sent
                        /\ i \in SelectedBy(last'.op, bookings')
    ]_vars

\* C29 witness: a sweep has sent one reminder and set that booking's flag, and
\* failed to send another, whose flag is still false.
C29_OneSentOneFailed ==
  /\ last.op \in SweepOps
  /\ \E i \in last.sent : bookings[i].reminder_sent
  /\ \E i \in last.selected \ last.sent : ~bookings[i].reminder_sent

\* C30: a sweep that runs right after a sweep (of the same definition) whose
\* query was answered and whose reminders were all sent, with no call in
\* between, sends nothing.
C30_SecondSweepSendsNothing ==
  [][ ( /\ last.op \in SweepOps /\ last'.op = last.op
        /\ last.db = "ok" /\ last.sent = last.selected )
        => last'.sent = {}
    ]_vars

\* C31: with two sweep runs under way at once, no booking is sent a reminder
\* by both of them.
C31_NoDoubleReminder ==
  \A i \in Ids : ~(i \in reqs[1].result.sent /\ i \in reqs[2].result.sent)

\* C32: reminder_sent is false on a new booking, and no operation (a sweep, a
\* reschedule, a cancellation, the storing of a calendar event id) sets it
\* back to false once it is true; rows are never removed.
C32_ReminderSentMonotonic ==
  [][/\ Len(bookings') >= Len(bookings)
     /\ \A i \in 1..Len(bookings') :
          IF i <= Len(bookings)
          THEN bookings[i].reminder_sent => bookings'[i].reminder_sent
          ELSE ~bookings'[i].reminder_sent]_vars

\* Every booking has been reminded, and one has just been moved.
C32_RemindedThenMoved ==
  /\ last.op = "rescheduleBooking" /\ last.success /\ last.ins = "ok"
  /\ Len(bookings) >= 1
  /\ \A i \in Ids : bookings[i].reminder_sent

\* Whether the query of sweep op would return booking i were its flag false:
\* it is confirmed and starts inside the window of that sweep.
StillDue(op, i) ==
  i \in SelectedBy(op, [j \in Ids |-> [bookings[j] EXCEPT !.reminder_sent = FALSE]])

C34_BufferAsConfigured ==
  [][ (last = NoResult /\ last'.op \in {"processBooking", "rescheduleBooking"}
         /\ last'.msg = "buffer")
        => \E b \in Businesses : \E c \in Candidates(b) : \E i \in Ids :
             /\ bookings[i].business = b /\ Confirmed(i)
             /\ ~Overlap(c.start, c.end, bookings[i].start, bookings[i].end)
             /\ c.start < bookings[i].end + ConfiguredBuffer(b)
             /\ c.end > bookings[i].start - ConfiguredBuffer(b)
    ]_vars

\* C35: cancelled bookings do not count in the internal conflict and buffer
\* checks: whenever a call may start, the interval of a cancelled booking of a
\* business without calendar, with no confirmed booking of the business within
\* the buffer of it, is answered available, and processBooking confirms it when
\* its insert and its messages succeed.
C35_CancelledFreesInterval ==
  last = NoResult =>
    \A i \in Ids :
      LET b == bookings[i].business
          s == bookings[i].start
          e == bookings[i].end
      IN  (bookings[i].status = "cancelled" /\ ~business[b].calendar /\ Clear(b, s, e))
            => /\ CalOuts(b, s, e) = {NotAsked}
               /\ CheckAvailability(b, s, e, NotAsked, "ok") = Available
               /\ Confirmation(b, "na", "ok", TRUE, "ok", "na", "na", "ok").success

\* A booking has just been confirmed for the interval of a cancelled one.
C35_RebookedAfterCancel ==
  /\ Inserted /\ last.success /\ last.clear
  /\ \E i \in Ids : i < Len(bookings)
       /\ bookings[i].status = "cancelled"
       /\ ~business[bookings[i].business].calendar
       /\ bookings[i].business = bookings[Len(bookings)].business
       /\ bookings[i].start = bookings[Len(bookings)].start
       /\ bookings[i].end = bookings[Len(bookings)].end

\* C36: rescheduleBooking does not count the booking being moved against
\* itself: a reschedule is refused as already booked or too close to another
\* booking only when some other confirmed booking of the business lies within
\* the buffer of an interval the moved booking may be moved to.
C36_RescheduleIgnoresItself ==
  [][ (last = NoResult /\ last'.op = "rescheduleBooking"
         /\ last'.msg \in {"already_booked", "buffer"})
        => \E id \in Ids : \E j \in Ids \ {id} : \E t \in ReqTimes(bookings[id].business) :
             LET b == bookings[id].business
                 e == t + (bookings[id].end - bookings[id].start)
                 m == IF ConfiguredBuffer(b) > BufferMinutes(b)
                      THEN ConfiguredBuffer(b) ELSE BufferMinutes(b)
             IN  /\ bookings[j].business = b /\ Confirmed(j)
                 /\ t < bookings[j].end + m
                 /\ e > bookings[j].start - m
    ]_vars

\* C37: when the update of the booking's times fails, rescheduleBooking
\* returns a failure, does not update the calendar event and does not send the
\* 'rescheduled' message (a call that returns success has sent it).
C37_FailedUpdateFailsReschedule ==
  (last.op = "rescheduleBooking" /\ last.ins = "error")
    => (~last.success /\ last.evt = "na" /\ last.msg # "rescheduled")

C39_OneConfirmation ==
  [][ /\ hook'.pc = "booked" => hook'.confirmations = 1
      /\ Len(bookings') > Len(bookings)
           => (hook.pc = "processBooking" /\ hook.intent = "booking"
                 /\ hook.action = "confirm")
    ]_vars

\* The requests of sender k handed on since its current window began.
WindowPasses(k) ==
  Cardinality({n \in 1..Len(passed[k]) :
                 passed[k][n] >= rateLimit[k].resetTime - RateLimitWindow})

\* A step in which rateLimitMiddleware handled a request of sender k.
RequestOf(k) == clock' = clock /\ hook'.from = k

\* C40: rateLimitMiddleware hands on at most 10 requests of a sender within
\* one window; a request of a sender with 10 handed on and the reset time not
\* passed gets 429 and is not handed on; a request of one sender does not touch
\* the counter of another; the first request after the reset time is handed on
\* and starts a new window with count 1.
C40_TenPerWindow ==
  [][ \A k \in Senders :
        /\ k \in DOMAIN rateLimit' =>
             /\ WindowPasses(k)' <= MaxRequests
             /\ WindowPasses(k)' = rateLimit'[k].count
        /\ (RequestOf(k) /\ k \in DOMAIN rateLimit) =>
             /\ (WindowPasses(k) = MaxRequests /\ clock <= rateLimit[k].resetTime)
                  => /\ hook'.pc = "429"
                     /\ passed' = passed /\ rateLimit' = rateLimit
             /\ clock > rateLimit[k].resetTime
                  => /\ hook'.pc = "next"
                     /\ passed'[k] = Append(passed[k], clock)
                     /\ rateLimit'[k] = [count |-> 1,
                                         resetTime |-> clock + RateLimitWindow]
             /\ hook'.pc = "429"
                  => (WindowPasses(k) = MaxRequests /\ clock <= rateLimit[k].resetTime)
        /\ RequestOf(k) =>
             \A other \in Senders \ {k} :
               /\ passed'[other] = passed[other]
               /\ other \in DOMAIN rateLimit' <=> other \in DOMAIN rateLimit
               /\ other \in DOMAIN rateLimit => rateLimit'[other] = rateLimit[other]
    ]_vars

\* The eleventh request of a sender inside its window has just been answered
\* 429, at the window's reset time exactly, while another sender has been
\* handed on.
C40_EleventhRefused ==
  /\ hook.pc = "429"
  /\ hook.from \in DOMAIN rateLimit
  /\ rateLimit[hook.from].count = MaxRequests
  /\ clock = rateLimit[hook.from].resetTime
  /\ \E other \in Senders \ {hook.from} : Len(passed[other]) >= 1

\* C20: a call that returns a failure result has not changed the ledger: its
\* write (insert, status change, new start/end) did not happen.
C20_FailureLeavesLedger ==
  (last.op \in {"processBooking", "rescheduleBooking", "cancelBooking"} /\ ~last.success)
    => last.ins # "ok"

====
